---- MODULE Spec2Model ----
(***************************************************************************)
(* Model of the evaluation hooks of the factory repository:                *)
(*   src/hooks/regression_eval.py  replay of dataset rows                  *)
(*   src/hooks/score_pr.py         LLM-judged scorer                       *)
(*   src/hooks/post_run_eval.py    deterministic post-run scorer           *)
(*   src/hooks/ci_eval.py          CI hook                                 *)
(* One behaviour of the model is one run of one of the four scripts.       *)
(* Scores are kept in hundredths (1.0 is 100, 0.15 is 15).                 *)
(* An optional value is a sequence: << >> is "absent", <<v>> is "v".       *)
(***************************************************************************)
EXTENDS Integers, Sequences, FiniteSets, TLC

VARIABLES
    script,        \* which of the four scripts this process runs
    pc,            \* position of the script
    exit,          \* "running", "zero" (exit 0), "one" (sys.exit(1)), "raised" (uncaught exception)
    raisedAt,      \* the call whose exception was not caught ("" when none)
    reported,      \* the script printed its final success line
    \* ---- telemetry backend and local files (all scripts)
    traces,        \* records passed to logger.log
    expLog,        \* records passed to experiment.log
    expCreated,    \* braintrust.init(...) returned an experiment
    swallowed,     \* backend calls whose exception an except clause dropped
    datasetRows,   \* rows passed to dataset.insert
    flushed,       \* dataset.flush() returned
    scoreJson,     \* << >> or <<contents of score.json>>
    \* ---- regression_eval.py
    limit,         \* args.limit: << >> (None) or <<k>>
    dry_run,       \* args.dry_run
    dataset,       \* row ids returned by dataset.fetch(), in fetch order
    rows,          \* the selected rows
    idx,           \* index in rows of the row being replayed
    titles,        \* number of titles printed by the dry run
    runDirs,       \* run directories under the runs root, newest first
    dispatched,    \* runner dispatches so far: [row, outcome]
    ralph_status,  \* the variable of the same name
    tmpFiles,      \* rows whose temporary task file exists on disk
    branchDel,     \* rows for whose branch "git branch -D" was run
    passed,
    failed,
    \* ---- scorers (score_pr.py, post_run_eval.py, ci_eval.py)
    status,        \* result["status"]
    iters,         \* int(result["iterations"])
    gitCalls,      \* outcome of each version-control call made, in order
    files_changed, \* ci_eval.py's files_changed
    diff_lines,    \* insertions + deletions as the script computed them
    diff_stat,     \* stat text in hand (kept by score_pr.py): << >> is "", <<numbers>> otherwise
    diff_content,  \* kinds of lines of the diff text kept by the script ({} is "")
    response,      \* the judge's response (score_pr.py)
    scores,        \* the script's score mapping
    verdict,       \* score_pr.py's verdict
    checks,        \* ci_eval.py's checks mapping, as a sequence of [name, tool, score]
    project        \* ci_eval.py: project type found in the working directory

vars == << script, pc, exit, raisedAt, reported, traces, expLog, expCreated, swallowed,
           datasetRows, flushed, scoreJson,
           limit, dry_run, dataset, rows, idx, titles, runDirs, dispatched,
           ralph_status, tmpFiles, branchDel, passed, failed,
           status, iters, gitCalls, files_changed, diff_lines, diff_stat, diff_content,
           response, scores, verdict, checks, project >>

sinkVars == << traces, expLog, expCreated, swallowed, datasetRows, flushed, scoreJson >>
replayVars == << limit, dry_run, dataset, rows, idx, titles, runDirs, dispatched,
                 ralph_status, tmpFiles, branchDel, passed, failed >>
scorerVars == << status, iters, gitCalls, files_changed, diff_lines, diff_stat, diff_content,
                 response, scores, verdict, checks, project >>

----------------------------------------------------------------------------
(* Bounds of the model *)

MaxRows == 3        \* rows in the dataset
MaxLimit == 4       \* largest --limit tried
MaxIters == 5       \* largest iteration count of a run
MaxCount == 255     \* largest insertion or deletion count of a stat line

Scripts == {"regression_eval", "score_pr", "post_run_eval", "ci_eval"}

RunStatuses == {"success", "failure"}

----------------------------------------------------------------------------
(* Helpers shared by the scripts *)

Take(s, k) == SubSeq(s, 1, IF k < Len(s) THEN k ELSE Len(s))

Range(s) == {s[i] : i \in 1..Len(s)}

\* An uncaught exception ends the process with a traceback.
Raise(at) ==
    /\ exit' = "raised"
    /\ raisedAt' = at
    /\ pc' = "end"

\* build_passes of the deterministic scorer
BuildScore(st) == IF st = "success" THEN 100 ELSE 0

\* efficiency of the deterministic scorer
Efficiency(n) ==
    IF n <= 1 THEN 100
    ELSE IF n <= 2 THEN 80
    ELSE IF n <= 4 THEN 50
    ELSE 20

----------------------------------------------------------------------------
(* regression_eval.py *)

\* What one run of the external task runner can leave behind: nothing, or a
\* new run directory without result.json, with a malformed one, or with a
\* result.json holding status and iterations.
NoResult == [has_result |-> FALSE, valid |-> FALSE, status |-> "", iterations |-> 0]
BadResult == [has_result |-> TRUE, valid |-> FALSE, status |-> "", iterations |-> 0]
GoodResults == [has_result : {TRUE}, valid : {TRUE}, status : RunStatuses,
                iterations : {1, MaxIters}]

RunnerOutcomes ==
    [kind : {"completed"}, newdir : {<< >>, <<NoResult>>, <<BadResult>>}]
    \cup [kind : {"completed"}, newdir : {<<g>> : g \in GoodResults}]
    \cup [kind : {"timeout"}, newdir : {<< >>, <<NoResult>>}]
    \cup [kind : {"exception"}, newdir : {<< >>}]

\* A run directory, with the row whose dispatch created it (0: it was there
\* before this replay started).
MkDir(owner, r) == [owner |-> owner, has_result |-> r.has_result, valid |-> r.valid,
                    status |-> r.status, iterations |-> r.iterations]

\* Runs roots the replay can start from.
StaleRoots == { << >>,
                << MkDir(0, [has_result |-> TRUE, valid |-> TRUE,
                             status |-> "success", iterations |-> 1]) >> }

\* rows = rows[:args.limit] under "if args.limit:"
SelectRows(all, lim) ==
    IF lim # << >> /\ lim[1] # 0 THEN Take(all, lim[1]) ELSE all

\* The try statement with "except subprocess.TimeoutExpired" left out.
PropagatesTimeout(kind) == kind = "timeout"

\* Whether an exception of the runner call leaves the try statement:
\* "except subprocess.TimeoutExpired" and "except Exception" catch both kinds.
Propagates(kind) == FALSE

\* ralph_status as the try statement leaves it
RalphStatus(o) ==
    CASE o.kind = "timeout" -> "timeout"
      [] o.kind = "exception" -> "error"
      [] OTHER -> IF o.newdir # << >> /\ o.newdir[1].valid
                  THEN o.newdir[1].status ELSE "error"

\* run_dirs[0] when "run_dirs and (run_dirs[0] / 'result.json').exists()"
LatestResult(dirs) ==
    IF dirs # << >> /\ dirs[1].has_result THEN << dirs[1] >> ELSE << >>

\* lines 38-67: fetch, --limit, the empty and dry-run exits, braintrust.init
Fetch ==
    /\ script = "regression_eval" /\ pc = "fetch"
    /\ LET sel == SelectRows(dataset, limit) IN
       /\ rows' = sel
       /\ IF sel = << >>
          THEN /\ exit' = "zero" /\ pc' = "end"
               /\ UNCHANGED << raisedAt, titles, expCreated >>
          ELSE IF dry_run
          THEN /\ titles' = Len(sel)
               /\ exit' = "zero" /\ pc' = "end"
               /\ UNCHANGED << raisedAt, expCreated >>
          ELSE \/ /\ expCreated' = TRUE
                  /\ pc' = "row"
                  /\ UNCHANGED << exit, raisedAt, titles >>
               \/ /\ Raise("braintrust.init")
                  /\ UNCHANGED << titles, expCreated >>
    /\ UNCHANGED << script, reported, traces, expLog, swallowed, datasetRows, flushed,
                    scoreJson, limit, dry_run, dataset, idx, runDirs, dispatched,
                    ralph_status, tmpFiles, branchDel, passed, failed >>
    /\ UNCHANGED scorerVars

\* lines 75-99: temporary task file, branch name, the runner under its timeout
Dispatch ==
    /\ script = "regression_eval" /\ pc = "row" /\ idx <= Len(rows)
    /\ \E o \in RunnerOutcomes :
        /\ tmpFiles' = tmpFiles \cup {rows[idx]}
        /\ dispatched' = Append(dispatched, [row |-> rows[idx], outcome |-> o.kind,
                                             created |-> o.newdir # << >>])
        /\ runDirs' = IF o.newdir = << >> THEN runDirs
                      ELSE << MkDir(rows[idx], o.newdir[1]) >> \o runDirs
        /\ IF o.kind # "completed" /\ Propagates(o.kind)
           THEN /\ Raise("subprocess.run")
                /\ UNCHANGED ralph_status
           ELSE /\ ralph_status' = RalphStatus(o)
                /\ pc' = "score"
                /\ UNCHANGED << exit, raisedAt >>
    /\ UNCHANGED << script, reported, limit, dry_run, dataset, rows, idx, titles,
                    branchDel, passed, failed >>
    /\ UNCHANGED sinkVars
    /\ UNCHANGED scorerVars

\* lines 101-137: latest run directory, result.json, scores, experiment.log, count
ScoreRow ==
    /\ script = "regression_eval" /\ pc = "score"
    /\ LET latest == LatestResult(runDirs) IN
       IF latest # << >> /\ ~latest[1].valid
       THEN /\ Raise("json.loads")
            /\ UNCHANGED << expLog, passed, failed >>
       ELSE LET new_status == IF latest # << >> THEN latest[1].status ELSE "error"
                new_iters == IF latest # << >> THEN latest[1].iterations ELSE 0
                rec == [dataset_record_id |-> rows[idx],
                        output |-> [status |-> new_status, iterations |-> new_iters],
                        scores |-> [build_passes |-> BuildScore(new_status),
                                    efficiency |-> Efficiency(new_iters)]]
            IN \/ /\ expLog' = Append(expLog, rec)
                  /\ IF new_status = "success"
                     THEN passed' = passed + 1 /\ UNCHANGED failed
                     ELSE failed' = failed + 1 /\ UNCHANGED passed
                  /\ pc' = "cleanup"
                  /\ UNCHANGED << exit, raisedAt >>
               \/ /\ Raise("experiment.log")
                  /\ UNCHANGED << expLog, passed, failed >>
    /\ UNCHANGED << script, reported, traces, expCreated, swallowed, datasetRows, flushed,
                    scoreJson, limit, dry_run, dataset, rows, idx, titles, runDirs,
                    dispatched, ralph_status, tmpFiles, branchDel >>
    /\ UNCHANGED scorerVars

\* lines 139-147: os.unlink, then "git branch -D" whose failure is dropped
Cleanup ==
    /\ script = "regression_eval" /\ pc = "cleanup"
    /\ tmpFiles' = tmpFiles \ {rows[idx]}
    /\ branchDel' = branchDel \cup {rows[idx]}
    /\ \E git \in {"deleted", "nonzero", "raised"} :
         swallowed' = IF git = "raised" THEN swallowed \cup {"git branch -D"}
                      ELSE swallowed
    /\ idx' = idx + 1
    /\ pc' = "row"
    /\ UNCHANGED << script, exit, raisedAt, reported, traces, expLog, expCreated,
                    datasetRows, flushed, scoreJson, limit, dry_run, dataset, rows,
                    titles, runDirs, dispatched, ralph_status, passed, failed >>
    /\ UNCHANGED scorerVars

\* lines 151-155: experiment.summarize() and the summary
Summary ==
    /\ script = "regression_eval" /\ pc = "row" /\ idx > Len(rows)
    /\ \/ /\ exit' = "zero" /\ pc' = "end" /\ reported' = TRUE
          /\ UNCHANGED raisedAt
       \/ /\ Raise("experiment.summarize")
          /\ UNCHANGED reported
    /\ UNCHANGED script
    /\ UNCHANGED sinkVars
    /\ UNCHANGED replayVars
    /\ UNCHANGED scorerVars

InitReplay ==
    /\ script = "regression_eval" /\ pc = "fetch"
    /\ limit \in {<< >>} \cup {<<k>> : k \in 0..MaxLimit}
    /\ dry_run \in BOOLEAN
    /\ dataset \in {[i \in 1..n |-> i] : n \in 0..MaxRows}
    /\ runDirs \in StaleRoots

----------------------------------------------------------------------------
(* The version-control provider, as the three scorers call it *)

\* Output of "git diff --stat": the numbers its last line names. A number
\* the line does not name is absent.
Counts == {<< >>, <<30>>, <<300>>}
EmptyStat == [files |-> << >>, ins |-> << >>, del |-> << >>]
StatOutputs == {EmptyStat} \cup [files : {<<3>>}, ins : Counts, del : Counts]

\* Output of "git diff": the kinds of lines the text holds. {} is the empty text.
DiffTexts == SUBSET {"add_suppress", "del_test", "other"}

\* One call either fails (non-zero exit, missing ref, ...) or returns its output.
StatCalls == {[ok |-> FALSE, out |-> EmptyStat]} \cup [ok : {TRUE}, out : StatOutputs]
DiffCalls == {[ok |-> FALSE, out |-> {}]} \cup [ok : {TRUE}, out : DiffTexts]

\* int(m.group(1)) if m else 0
Parsed(opt) == IF opt = << >> THEN 0 ELSE opt[1]

\* The step function with "<" written for "<=".
DiffPrecisionStrict(total) ==
    IF total < 50 THEN 100
    ELSE IF total < 150 THEN 70
    ELSE IF total < 500 THEN 40
    ELSE 10

\* The step function of the total changed lines (post_run_eval.py's diff_score)
DiffPrecision(total) ==
    IF total <= 50 THEN 100
    ELSE IF total <= 150 THEN 70
    ELSE IF total <= 500 THEN 40
    ELSE 10

----------------------------------------------------------------------------
(* score_pr.py *)

Keys == {"requirements_met", "acceptance_criteria", "no_regressions",
         "code_quality", "completeness", "overall"}

\* The judge's reply: text that is no JSON, JSON that is no object, or an
\* object in which each key either is missing or carries a score, and which
\* may or may not carry a verdict.
JudgeValues == {<< >>, <<0>>, <<70>>, <<150>>}
NoEntries == [k \in Keys |-> << >>]
JudgeResponses ==
    [kind : {"unparsable", "nonobject"}, entries : {NoEntries}, verdict : {<< >>}]
    \cup [kind : {"object"}, entries : [Keys -> JudgeValues],
          verdict : {<< >>, <<"PASS">>}]

\* float(entry.get("score", 0.0)) with entry = scores_json.get(key, {})
ExtractScore(r, key) ==
    IF r.entries[key] = << >> THEN 0 ELSE r.entries[key][1]

\* scores_json.get("verdict", "UNKNOWN")
ExtractVerdict(r) == IF r.verdict = << >> THEN "UNKNOWN" ELSE r.verdict[1]

\* The stat and diff texts go to the prompt and the trace uncut by any rule
\* of the script, so two texts of each stand for all: the empty one and one other.
PrStatCalls == {c \in StatCalls : c.out \in {EmptyStat, [files |-> <<3>>, ins |-> <<30>>, del |-> <<300>>]}}
PrDiffCalls == {c \in DiffCalls : c.out \in {{}, {"other"}}}

\* lines 39-93: run data and evidence; the two git calls share one try, so
\* a failed stat call leaves it before the diff call is made
ScoreGather ==
    /\ script = "score_pr" /\ pc = "gather"
    /\ \E st \in PrStatCalls, df \in PrDiffCalls :
        /\ (~st.ok => ~df.ok)
        /\ diff_stat' = IF st.ok /\ st.out # EmptyStat THEN << st.out >> ELSE << >>
        /\ diff_content' = IF st.ok /\ df.ok THEN df.out ELSE {}
        /\ gitCalls' = IF st.ok THEN << "ok", IF df.ok THEN "ok" ELSE "failed" >>
                       ELSE << "failed" >>
    /\ pc' = "judge"
    /\ UNCHANGED << script, exit, raisedAt, reported, status, iters, files_changed,
                    diff_lines, response, scores, verdict, checks, project >>
    /\ UNCHANGED sinkVars
    /\ UNCHANGED replayVars

\* lines 167-201: the judge call, JSON parsing, score extraction
ScoreJudge ==
    /\ script = "score_pr" /\ pc = "judge"
    /\ \E r \in JudgeResponses :
        /\ response' = << r >>
        /\ IF r.kind = "unparsable"
           THEN /\ Raise("json.loads")
                /\ UNCHANGED << scores, verdict >>
           ELSE IF r.kind = "nonobject"
           THEN /\ Raise("scores_json.get")
                /\ UNCHANGED << scores, verdict >>
           ELSE /\ scores' = [k \in Keys |-> ExtractScore(r, k)]
                /\ verdict' = ExtractVerdict(r)
                /\ pc' = "trace"
                /\ UNCHANGED << exit, raisedAt >>
    /\ UNCHANGED << script, reported, status, iters, gitCalls, files_changed, diff_lines,
                    diff_stat, diff_content, checks, project >>
    /\ UNCHANGED sinkVars
    /\ UNCHANGED replayVars

\* lines 205-226: logger.log, outside any try
ScoreTrace ==
    /\ script = "score_pr" /\ pc = "trace"
    /\ \/ /\ traces' = Append(traces, [scores |-> scores, verdict |-> verdict])
          /\ pc' = "experiment"
          /\ UNCHANGED << exit, raisedAt >>
       \/ /\ Raise("logger.log")
          /\ UNCHANGED traces
    /\ UNCHANGED << script, reported, expLog, expCreated, swallowed, datasetRows,
                    flushed, scoreJson >>
    /\ UNCHANGED replayVars
    /\ UNCHANGED scorerVars

\* lines 229-252: braintrust.init, experiment.log and summarize under
\* "except Exception: pass", then the success line
ScoreExperiment ==
    /\ script = "score_pr" /\ pc = "experiment"
    /\ \E failing \in {"none", "braintrust.init", "experiment.log", "experiment.summarize"} :
        /\ expCreated' = (failing # "braintrust.init")
        /\ expLog' = IF failing \in {"none", "experiment.summarize"}
                     THEN Append(expLog, [scores |-> scores, verdict |-> verdict])
                     ELSE expLog
        /\ swallowed' = IF failing = "none" THEN swallowed ELSE swallowed \cup {failing}
    /\ reported' = TRUE
    /\ pc' = "write"
    /\ UNCHANGED << script, exit, raisedAt, traces, datasetRows, flushed, scoreJson >>
    /\ UNCHANGED replayVars
    /\ UNCHANGED scorerVars

\* lines 256-264: score.json
ScoreWrite ==
    /\ script = "score_pr" /\ pc = "write"
    /\ scoreJson' = << [scores |-> scores, verdict |-> verdict, scorer |-> "llm-pr-scorer"] >>
    /\ exit' = "zero" /\ pc' = "end"
    /\ UNCHANGED << script, raisedAt, reported, traces, expLog, expCreated, swallowed,
                    datasetRows, flushed >>
    /\ UNCHANGED replayVars
    /\ UNCHANGED scorerVars

----------------------------------------------------------------------------
(* post_run_eval.py *)

\* integrity: 1.0, times 0.3 for an added suppression marker, times 0.5 for
\* a removed test or assertion
Integrity(text) ==
    LET a == IF "add_suppress" \in text THEN (100 * 3) \div 10 ELSE 100
    IN IF "del_test" \in text THEN a \div 2 ELSE a

\* lines 29-99: run data, diff inspection (both git calls in one try), scores
PostScore ==
    /\ script = "post_run_eval" /\ pc = "score"
    /\ \E s \in RunStatuses, n \in 0..MaxIters, st \in StatCalls, df \in DiffCalls :
        /\ (~st.ok => ~df.ok)
        /\ LET lines == IF st.ok THEN Parsed(st.out.ins) + Parsed(st.out.del) ELSE 0
               text == IF st.ok /\ df.ok THEN df.out ELSE {}
           IN /\ status' = s
              /\ iters' = n
              /\ diff_lines' = lines
              /\ diff_content' = text
              /\ gitCalls' = IF st.ok THEN << "ok", IF df.ok THEN "ok" ELSE "failed" >>
                             ELSE << "failed" >>
              /\ scores' = [build_passes |-> BuildScore(s),
                            efficiency |-> Efficiency(n),
                            diff_precision |-> DiffPrecision(lines),
                            integrity |-> Integrity(text)]
    /\ pc' = "trace"
    /\ UNCHANGED << script, exit, raisedAt, reported, files_changed, diff_stat,
                    response, verdict, checks, project >>
    /\ UNCHANGED sinkVars
    /\ UNCHANGED replayVars

\* lines 103-118: init_logger and logger.log
PostTrace ==
    /\ script = "post_run_eval" /\ pc = "trace"
    /\ \/ /\ traces' = Append(traces, [scores |-> scores, status |-> status])
          /\ pc' = "experiment"
          /\ UNCHANGED << exit, raisedAt >>
       \/ /\ Raise("logger.log")
          /\ UNCHANGED traces
    /\ UNCHANGED << script, reported, expLog, expCreated, swallowed, datasetRows,
                    flushed, scoreJson >>
    /\ UNCHANGED replayVars
    /\ UNCHANGED scorerVars

\* lines 122-150: braintrust.init, experiment.log, experiment.summarize
PostExperiment ==
    /\ script = "post_run_eval" /\ pc = "experiment"
    /\ \E failing \in {"none", "braintrust.init", "experiment.log", "experiment.summarize"} :
        /\ expCreated' = (failing # "braintrust.init")
        /\ expLog' = IF failing \in {"none", "experiment.summarize"}
                     THEN Append(expLog, [scores |-> scores, status |-> status])
                     ELSE expLog
        /\ IF failing = "none"
           THEN pc' = "dataset" /\ UNCHANGED << exit, raisedAt >>
           ELSE Raise(failing)
    /\ UNCHANGED << script, reported, traces, swallowed, datasetRows, flushed, scoreJson >>
    /\ UNCHANGED replayVars
    /\ UNCHANGED scorerVars

\* lines 154-198: the stat call for the row's diff_summary (own try), then
\* init_dataset, dataset.insert and dataset.flush
PostDataset ==
    /\ script = "post_run_eval" /\ pc = "dataset"
    /\ \E st \in {"ok", "failed"},
          failing \in {"none", "dataset.insert", "dataset.flush"} :
        /\ datasetRows' = IF failing = "dataset.insert" THEN datasetRows
                          ELSE Append(datasetRows,
                                      [actual_scores |-> scores,
                                       actual_status |-> status,
                                       diff_summary |-> IF st = "ok" THEN "stat" ELSE ""])
        /\ flushed' = (failing = "none")
        /\ IF failing = "none"
           THEN /\ exit' = "zero" /\ pc' = "end" /\ reported' = TRUE
                /\ UNCHANGED raisedAt
           ELSE /\ Raise(failing)
                /\ UNCHANGED reported
    /\ UNCHANGED << script, traces, expLog, expCreated, swallowed, scoreJson >>
    /\ UNCHANGED scorerVars
    /\ UNCHANGED replayVars

----------------------------------------------------------------------------
(* ci_eval.py *)

Projects == {"flutter", "node", "none"}

\* The checks of a project type, in order, and whether the command line
\* given to the shell ends in "| tail -30".
CheckCommands(p) ==
    CASE p = "flutter" -> << [name |-> "analyze", piped |-> FALSE],
                             [name |-> "build_ios", piped |-> TRUE],
                             [name |-> "test", piped |-> TRUE] >>
      [] p = "node" -> << [name |-> "lint", piped |-> TRUE],
                          [name |-> "test", piped |-> TRUE],
                          [name |-> "build", piped |-> TRUE] >>
      [] OTHER -> << >>

\* Exit status of "sh -c cmd": that of the last command of the pipeline, and
\* tail exits 0.
ShellStatus(cmd, tool) ==
    IF cmd.piped THEN 0 ELSE IF tool = "failed" THEN 1 ELSE 0

\* run_check: 1.0 when check_output returns, 0.0 on CalledProcessError
CheckScore(cmd, tool) == IF ShellStatus(cmd, tool) = 0 THEN 100 ELSE 0

\* checks["diff_precision"]: ci_eval.py's own copy of the step function
CiDiffPrecision(total_diff) ==
    IF total_diff <= 50 THEN 100
    ELSE IF total_diff <= 150 THEN 70
    ELSE IF total_diff <= 500 THEN 40
    ELSE 10

\* scores=checks: the checks mapping, diff_precision included
ChecksMapping(cs, dp) ==
    [n \in {cs[i].name : i \in 1..Len(cs)} \cup {"diff_precision"} |->
        IF n = "diff_precision" THEN dp
        ELSE (CHOOSE c \in Range(cs) : c.name = n).score]

\* any(v == 0.0 for k, v in checks.items() if k != "diff_precision")
AnyCheckFailed(cs) == \E i \in 1..Len(cs) : cs[i].score = 0

\* lines 33-56: one run_check call
CiCheck ==
    /\ script = "ci_eval" /\ pc = "checks"
    /\ Len(checks) < Len(CheckCommands(project))
    /\ LET cmd == CheckCommands(project)[Len(checks) + 1] IN
       \E tool \in {"passed", "failed"} :
          checks' = Append(checks, [name |-> cmd.name, tool |-> tool,
                                    score |-> CheckScore(cmd, tool)])
    /\ UNCHANGED << script, pc, exit, raisedAt, reported, status, iters, gitCalls,
                    files_changed, diff_lines, diff_stat, diff_content, response,
                    scores, verdict, project >>
    /\ UNCHANGED sinkVars
    /\ UNCHANGED replayVars

\* lines 60-79: the stat call and diff_precision
CiDiff ==
    /\ script = "ci_eval" /\ pc = "checks"
    /\ Len(checks) = Len(CheckCommands(project))
    /\ \E st \in StatCalls :
        LET lines == IF st.ok THEN Parsed(st.out.ins) + Parsed(st.out.del) ELSE 0 IN
        /\ files_changed' = IF st.ok THEN Parsed(st.out.files) ELSE 0
        /\ diff_lines' = lines
        /\ gitCalls' = << IF st.ok THEN "ok" ELSE "failed" >>
        /\ scores' = ChecksMapping(checks, CiDiffPrecision(lines))
    /\ pc' = "log"
    /\ UNCHANGED << script, exit, raisedAt, reported, status, iters, diff_stat,
                    diff_content, response, verdict, checks, project >>
    /\ UNCHANGED sinkVars
    /\ UNCHANGED replayVars

\* lines 83-107: braintrust.init, experiment.log, experiment.summarize
CiLog ==
    /\ script = "ci_eval" /\ pc = "log"
    /\ \E failing \in {"none", "braintrust.init", "experiment.log", "experiment.summarize"} :
        /\ expCreated' = (failing # "braintrust.init")
        /\ expLog' = IF failing \in {"none", "experiment.summarize"}
                     THEN Append(expLog, [scores |-> scores])
                     ELSE expLog
        /\ IF failing = "none"
           THEN pc' = "finish" /\ UNCHANGED << exit, raisedAt >>
           ELSE Raise(failing)
    /\ UNCHANGED << script, reported, traces, swallowed, datasetRows, flushed, scoreJson >>
    /\ UNCHANGED replayVars
    /\ UNCHANGED scorerVars

\* lines 111-125: the step summary and the exit status
CiFinish ==
    /\ script = "ci_eval" /\ pc = "finish"
    /\ exit' = IF AnyCheckFailed(checks) THEN "one" ELSE "zero"
    /\ pc' = "end"
    /\ reported' = TRUE
    /\ UNCHANGED << script, raisedAt >>
    /\ UNCHANGED sinkVars
    /\ UNCHANGED replayVars
    /\ UNCHANGED scorerVars

----------------------------------------------------------------------------
(* The specification *)

IdleSink ==
    /\ traces = << >> /\ expLog = << >> /\ expCreated = FALSE /\ swallowed = {}
    /\ datasetRows = << >> /\ flushed = FALSE /\ scoreJson = << >>

IdleReplay ==
    /\ rows = << >> /\ idx = 1 /\ titles = 0 /\ dispatched = << >>
    /\ ralph_status = "" /\ tmpFiles = {} /\ branchDel = {}
    /\ passed = 0 /\ failed = 0

IdleScorer ==
    /\ status = "" /\ iters = 0 /\ gitCalls = << >> /\ files_changed = 0
    /\ diff_lines = 0 /\ diff_stat = << >> /\ diff_content = {}
    /\ response = << >> /\ scores = << >> /\ verdict = "" /\ checks = << >>

NoArgs ==
    /\ limit = << >> /\ dry_run = FALSE /\ dataset = << >> /\ runDirs = << >>

Init ==
    /\ exit = "running" /\ raisedAt = "" /\ reported = FALSE
    /\ IdleSink /\ IdleReplay /\ IdleScorer
    /\ \/ InitReplay /\ project = "none"
       \/ script = "score_pr" /\ pc = "gather" /\ NoArgs /\ project = "none"
       \/ script = "post_run_eval" /\ pc = "score" /\ NoArgs /\ project = "none"
       \/ script = "ci_eval" /\ pc = "checks" /\ NoArgs /\ project \in Projects

Next ==
    \/ Fetch \/ Dispatch \/ ScoreRow \/ Cleanup \/ Summary
    \/ ScoreGather \/ ScoreJudge \/ ScoreTrace \/ ScoreExperiment \/ ScoreWrite
    \/ PostScore \/ PostTrace \/ PostExperiment \/ PostDataset
    \/ CiCheck \/ CiDiff \/ CiLog \/ CiFinish

Spec == Init /\ [][Next]_vars

----------------------------------------------------------------------------
(* The diff_precision step of the two deterministic scorers, on every stat *)
(* line with up to MaxCount insertions and MaxCount deletions               *)

CountTexts == {<< >>} \cup {<<n>> : n \in 1..MaxCount}
StatLines == [files : {<<1>>}, ins : CountTexts, del : CountTexts]

\* post_run_eval.py lines 62-82: parse the stat output, add, score
PostDiffScore ==
    /\ script = "post_run_eval" /\ pc = "diff"
    /\ LET insertions == Parsed(diff_stat[1].ins)
           deletions == Parsed(diff_stat[1].del)
       IN /\ diff_lines' = insertions + deletions
          /\ scores' = [diff_precision |-> DiffPrecision(insertions + deletions)]
    /\ pc' = "scored"
    /\ UNCHANGED << script, exit, raisedAt, reported, status, iters, gitCalls,
                    files_changed, diff_stat, diff_content, response, verdict,
                    checks, project >>
    /\ UNCHANGED sinkVars
    /\ UNCHANGED replayVars

\* ci_eval.py lines 65-79: parse the stat output, add, score
CiDiffScore ==
    /\ script = "ci_eval" /\ pc = "diff"
    /\ LET insertions == Parsed(diff_stat[1].ins)
           deletions == Parsed(diff_stat[1].del)
       IN /\ files_changed' = Parsed(diff_stat[1].files)
          /\ diff_lines' = insertions + deletions
          /\ scores' = [diff_precision |-> CiDiffPrecision(insertions + deletions)]
    /\ pc' = "scored"
    /\ UNCHANGED << script, exit, raisedAt, reported, status, iters, gitCalls,
                    diff_stat, diff_content, response, verdict, checks, project >>
    /\ UNCHANGED sinkVars
    /\ UNCHANGED replayVars

InitDiff ==
    /\ exit = "running" /\ raisedAt = "" /\ reported = FALSE
    /\ IdleSink /\ IdleReplay /\ NoArgs
    /\ script \in {"post_run_eval", "ci_eval"} /\ pc = "diff"
    /\ status = "" /\ iters = 0 /\ gitCalls = << "ok" >> /\ files_changed = 0
    /\ diff_lines = 0 /\ diff_content = {}
    /\ response = << >> /\ scores = << >> /\ verdict = "" /\ checks = << >>
    /\ project = "none"
    /\ diff_stat \in {<< l >> : l \in StatLines}

NextDiff == PostDiffScore \/ CiDiffScore

SpecDiff == InitDiff /\ [][NextDiff]_vars

----------------------------------------------------------------------------
(* Properties *)

Replaying == script = "regression_eval"

Min(a, b) == IF a <= b THEN a ELSE b

RowsOf(seq) == [i \in 1..Len(seq) |-> seq[i].row]
RecordIds(log) == [i \in 1..Len(log) |-> log[i].dataset_record_id]
IsPrefix(s, t) == Len(s) <= Len(t) /\ s = SubSeq(t, 1, Len(s))

\* The calls of the replay whose failure is none of: runner timeout, runner
\* exception, missing run directory, missing result file.
OtherFailures == {"braintrust.init", "json.loads", "experiment.log", "experiment.summarize"}

\* C1: in a replay that is no dry run, a runner timeout, a runner exception, a
\* missing run directory or a missing result file never stops the loop: rows
\* are dispatched in fetch order, each dispatched row gets one record carrying
\* its id, an uncaught exception comes only from another call, and when the
\* replay reaches its summary every selected row has been dispatched and has
\* its record.
C1_HardFailureNeverStopsReplay ==
    Replaying =>
        /\ IsPrefix(RowsOf(dispatched), rows)
        /\ IsPrefix(RecordIds(expLog), RowsOf(dispatched))
        /\ Len(dispatched) <= Len(expLog) + 1
        /\ (exit = "raised" => raisedAt \in OtherFailures)
        /\ (pc \in {"score", "cleanup"} => Len(dispatched) = idx)
        /\ (pc = "cleanup" => Len(expLog) = idx)
        /\ (pc = "row" => Len(expLog) = idx - 1 /\ Len(dispatched) = idx - 1)
        /\ (exit = "zero" /\ ~dry_run =>
                RowsOf(dispatched) = rows /\ RecordIds(expLog) = rows)

\* A replay of three rows that met a timeout, a runner exception and a run
\* that left no directory, and reached its summary.
C1_Witness ==
    /\ Replaying /\ exit = "zero" /\ ~dry_run /\ Len(rows) >= 3
    /\ \E i, j, k \in 1..Len(dispatched) :
        /\ dispatched[i].outcome = "timeout"
        /\ dispatched[j].outcome = "exception"
        /\ dispatched[k].outcome = "completed" /\ ~dispatched[k].created
    /\ RecordIds(expLog) = rows

\* C2: whatever happens to a replayed row, its temporary task file is removed
\* and the deletion of its branch is attempted before the replay moves on or
\* the process ends, and a failing branch deletion never fails the replay.
C2_CleanupUnconditional ==
    (Replaying /\ pc \in {"row", "end"}) =>
        /\ tmpFiles = {}
        /\ \A i \in 1..Len(dispatched) : dispatched[i].row \in branchDel
        /\ raisedAt # "git branch -D"

\* C3: a row whose dispatch timed out is logged with status "timeout", a row
\* whose dispatch raised another exception with status "error", both with
\* build_passes 0.0 and counted as failed.
C3_DispatchStatusLogged ==
    Replaying =>
        /\ \A i \in 1..Len(expLog) :
            /\ dispatched[i].outcome = "timeout" =>
                  expLog[i].output.status = "timeout" /\ expLog[i].scores.build_passes = 0
            /\ dispatched[i].outcome = "exception" =>
                  expLog[i].output.status = "error" /\ expLog[i].scores.build_passes = 0
        /\ failed >= Cardinality({i \in 1..Len(expLog) :
                                    dispatched[i].outcome \in {"timeout", "exception"}})

\* C4: a dry run over n rows with limit k prints min(k, n) titles (n without
\* a limit), dispatches nothing, creates no experiment and logs no record.
C4_DryRunPrintsLimitTitles ==
    (Replaying /\ dry_run /\ pc = "end") =>
        /\ titles = IF limit = << >> THEN Len(dataset) ELSE Min(limit[1], Len(dataset))
        /\ dispatched = << >>
        /\ ~expCreated
        /\ expLog = << >>

Dimensions == Keys \ {"overall"}

\* The reply is no parsable structured data, or omits a dimension's score.
LacksVerdict(r) == r.kind # "object" \/ \E k \in Dimensions : r.entries[k] = << >>

\* C5: when the judge's reply is malformed or omits a dimension's score, the
\* judged scorer raises and records nothing: no trace, no experiment record
\* and no score.json.
C5_MalformedReplyRaises ==
    (script = "score_pr" /\ response # << >> /\ LacksVerdict(response[1])) =>
        /\ exit = "raised"
        /\ traces = << >>
        /\ expLog = << >>
        /\ scoreJson = << >>

ScoreValues(f) == {f[k] : k \in DOMAIN f}
InRange(f) == \A v \in ScoreValues(f) : 0 <= v /\ v <= 100

\* C6: every score passed to the telemetry backend (trace, experiment record,
\* dataset row) or written to score.json lies in [0.0, 1.0].
C6_PersistedScoresInRange ==
    /\ \A i \in 1..Len(traces) : InRange(traces[i].scores)
    /\ \A i \in 1..Len(expLog) : InRange(expLog[i].scores)
    /\ \A i \in 1..Len(datasetRows) : InRange(datasetRows[i].actual_scores)
    /\ \A i \in 1..Len(scoreJson) : InRange(scoreJson[i].scores)

\* C7: an error raised while a record is appended to the experiment or a
\* dataset row is inserted or flushed is never dropped: the script does not
\* go on to report success.
C7_TransportErrorsSurface ==
    /\ swallowed \cap {"braintrust.init", "experiment.log", "experiment.summarize",
                       "dataset.insert", "dataset.flush"} = {}
    /\ (reported /\ script # "regression_eval" => Len(expLog) = 1)
    /\ (reported /\ script = "post_run_eval" => Len(datasetRows) = 1 /\ flushed)

\* C8: once the judge's verdict was parsed, score.json is written by the end
\* of the invocation, also when the trace or the experiment log failed.
C8_ScoreJsonAlwaysWritten ==
    (script = "score_pr" /\ pc = "end" /\ response # << >>
        /\ response[1].kind = "object" /\ response[1].verdict # << >>) =>
            scoreJson = << [scores |-> scores, verdict |-> verdict,
                            scorer |-> "llm-pr-scorer"] >>

\* C9: when a version-control call of the diff inspection fails, the diff
\* summary the script keeps is all zero (no files, no changed lines, empty
\* stat text) with an empty diff text, and no exception of the call ends the
\* evaluation.
C9_FailedDiffIsAllZero ==
    (\E i \in 1..Len(gitCalls) : gitCalls[i] = "failed") =>
        /\ files_changed = 0
        /\ diff_lines = 0
        /\ diff_stat = << >>
        /\ diff_content = {}
        /\ raisedAt \notin {"git diff --stat", "git diff"}

\* C10: the CI hook always completes and exits non-zero exactly when a check
\* other than diff_precision scored 0.0; a failing check is recorded as 0.0
\* and never ends the hook with an unhandled error, and the non-zero exit
\* comes only after the experiment record was logged.
C10_CiExitStatus ==
    script = "ci_eval" =>
        /\ \A i \in 1..Len(checks) : checks[i].tool = "failed" => checks[i].score = 0
        /\ (pc = "end" =>
               /\ exit # "raised"
               /\ (exit = "one" <=> \E i \in 1..Len(checks) : checks[i].tool = "failed")
               /\ (exit = "one" => Len(expLog) = 1))

\* The total changed lines of the stat line in hand
StatTotal == Parsed(diff_stat[1].ins) + Parsed(diff_stat[1].del)

\* The documented steps: 1.0 up to 50, 0.7 for 51..150, 0.4 for 151..500, 0.1 from 501
DocumentedPrecision(t) ==
    CASE t <= 50 -> 100
      [] 51 <= t /\ t <= 150 -> 70
      [] 151 <= t /\ t <= 500 -> 40
      [] t >= 501 -> 10

\* The scorer of the running script
ScorerOf(s, t) == IF s = "ci_eval" THEN CiDiffPrecision(t) ELSE DiffPrecision(t)

\* C11: for every total T of insertions and deletions, diff_precision is 1.0
\* for T <= 50, 0.7 for 51..150, 0.4 for 151..500 and 0.1 from 501 on; it
\* takes no other value, never rises as T grows, and is the same in the
\* post-run scorer and the CI hook.
C11_DiffPrecisionSteps ==
    pc = "scored" =>
        /\ diff_lines = StatTotal
        /\ scores.diff_precision = DocumentedPrecision(StatTotal)
        /\ scores.diff_precision \in {100, 70, 40, 10}
        /\ \A t \in 0..StatTotal : ScorerOf(script, t) >= scores.diff_precision
        /\ DiffPrecision(StatTotal) = CiDiffPrecision(StatTotal)

\* The CI hook scored a diff of 150 insertions and 1 deletion with 0.4.
C11_Witness ==
    /\ pc = "scored" /\ script = "ci_eval"
    /\ diff_stat[1].ins = <<150>> /\ diff_stat[1].del = <<1>>
    /\ scores.diff_precision = 40

\* C12: the status and iteration count logged for a row come from a run
\* directory that the row's own dispatch created: a row whose dispatch
\* created no run directory is logged with status "error" and 0 iterations
\* and is not counted as passed, whatever older directories the runs root holds.
C12_ResultFromOwnDispatch ==
    Replaying =>
        /\ \A i \in 1..Len(expLog) :
            /\ ~dispatched[i].created =>
                  /\ expLog[i].output.status = "error"
                  /\ expLog[i].output.iterations = 0
            /\ expLog[i].output.status # "error" =>
                  \E d \in Range(runDirs) :
                      /\ d.owner = dispatched[i].row
                      /\ d.has_result /\ d.valid
                      /\ d.status = expLog[i].output.status
                      /\ d.iterations = expLog[i].output.iterations
        /\ passed <= Cardinality({i \in 1..Len(expLog) : dispatched[i].created})

====
